---- MODULE Spec2Model ----
(***************************************************************************)
(* A model of the ASK client of src/ask_api.py: the catalog path           *)
(* (go_down / go_up), the query builder (clear_query / set_query) and the  *)
(* result normalizer (get_data / get_data_as_df).                          *)
(*                                                                         *)
(* Python values are modelled as follows.                                  *)
(*   - a str is the sequence of its characters, each character a one-      *)
(*     character string; the two non-ASCII letters of the registry are     *)
(*     written "c~" (c with cedilla) and "e~" (e with diaeresis), their    *)
(*     capitals "C~" and "E~";                                             *)
(*   - None is the record PyNone; a value whose Python type the code tests *)
(*     (isinstance, truthiness) is a record tagged with its type in .t;    *)
(*   - a list is a sequence, a dict a function on its keys.                *)
(***************************************************************************)
EXTENDS Integers, Sequences, FiniteSets, TLC

VARIABLES
    current_path,   \* self.current_path: the sequence of path segments
    query,          \* self.query
    out,            \* the lines set_query printed during the last call
    pending,        \* the input of the call about to be made, where a
                    \* specification draws it in its initial state
    call,           \* the last call made on the client and its arguments
    ret,            \* what the last call returned or raised
    path_before,    \* current_path as it was when the last call began
    prev            \* the call before the last one and the path it began with

vars == <<current_path, query, out, pending, call, ret, path_before, prev>>

-----------------------------------------------------------------------------
(* Python values *)

PyNone == [t |-> "None"]
PyStr(s) == [t |-> "str", v |-> s]
PyInt(n) == [t |-> "int", v |-> n]
PyList(l) == [t |-> "list", v |-> l]

Returned(v) == [t |-> "return", v |-> v]
Raised(e) == [t |-> "raise", exc |-> e]

NoCall == [op |-> "__init__"]

\* bool(x) of a None, str, int or list value
Truthy(x) ==
    CASE x.t = "None" -> FALSE
      [] x.t = "str"  -> Len(x.v) > 0
      [] x.t = "list" -> Len(x.v) > 0
      [] x.t = "int"  -> x.v # 0

-----------------------------------------------------------------------------
(* Characters: code points and str.lower() *)

UpperLetters ==
    <<"A", "B", "C", "D", "E", "F", "G", "H", "I", "J", "K", "L", "M",
      "N", "O", "P", "Q", "R", "S", "T", "U", "V", "W", "X", "Y", "Z">>
LowerLetters ==
    <<"a", "b", "c", "d", "e", "f", "g", "h", "i", "j", "k", "l", "m",
      "n", "o", "p", "q", "r", "s", "t", "u", "v", "w", "x", "y", "z">>
DigitChars == <<"0", "1", "2", "3", "4", "5", "6", "7", "8", "9">>

IndexOf(c, s) == CHOOSE i \in 1..Len(s) : s[i] = c
Occurs(c, s) == \E i \in 1..Len(s) : s[i] = c

Chars ==
    {DigitChars[i] : i \in 1..Len(DigitChars)}
    \cup {UpperLetters[i] : i \in 1..Len(UpperLetters)}
    \cup {LowerLetters[i] : i \in 1..Len(LowerLetters)}
    \cup {" ", "(", ")", "+", "-", ".", ":", "C~", "E~", "c~", "e~"}

\* the code point of every character
OrdTable ==
    [c \in Chars |->
        CASE Occurs(c, DigitChars)   -> 47 + IndexOf(c, DigitChars)
          [] Occurs(c, UpperLetters) -> 64 + IndexOf(c, UpperLetters)
          [] Occurs(c, LowerLetters) -> 96 + IndexOf(c, LowerLetters)
          [] c = " "  -> 32
          [] c = "("  -> 40
          [] c = ")"  -> 41
          [] c = "+"  -> 43
          [] c = "-"  -> 45
          [] c = "."  -> 46
          [] c = ":"  -> 58
          [] c = "C~" -> 199
          [] c = "E~" -> 203
          [] c = "c~" -> 231
          [] c = "e~" -> 235]

\* ord(c)
Ord(c) == OrdTable[c]

\* the lower-case form of every character
LowerTable ==
    [c \in Chars |->
        CASE Occurs(c, UpperLetters) -> LowerLetters[IndexOf(c, UpperLetters)]
          [] c = "C~" -> "c~"
          [] c = "E~" -> "e~"
          [] OTHER    -> c]

\* c.lower() of one character
LowerChar(c) == LowerTable[c]

\* s.lower()
lower(s) == [i \in 1..Len(s) |-> LowerChar(s[i])]

\* s < t for two str: decided by the code points at the first position where
\* they differ, and by the lengths when one is a prefix of the other
StrLess(s, t) ==
    LET n == IF Len(s) < Len(t) THEN Len(s) ELSE Len(t)
        diff == {i \in 1..n : s[i] # t[i]}
    IN  IF diff = {} THEN Len(s) < Len(t)
        ELSE LET i == CHOOSE k \in diff : \A j \in diff : k <= j
             IN  Ord(s[i]) < Ord(t[i])

-----------------------------------------------------------------------------
(* The municipality registry *)

\* self.municipality_map, in insertion order: <<code, name>>
municipality_map ==
    <<
       <<<<"0">>, <<"D", "e", "c~", "a", "n">>>>,
       <<<<"1">>, <<"G", "j", "a", "k", "o", "v", "e~">>>>,
       <<<<"2">>, <<"G", "l", "l", "o", "g", "o", "c">>>>,
       <<<<"3">>, <<"G", "j", "i", "l", "a", "n">>>>,
       <<<<"4">>, <<"D", "r", "a", "g", "a", "s", "h">>>>,
       <<<<"5">>, <<"I", "s", "t", "o", "g">>>>,
       <<<<"6">>, <<"K", "a", "c~", "a", "n", "i", "k">>>>,
       <<<<"7">>, <<"K", "l", "i", "n", "e~">>>>,
       <<<<"8">>, <<"F", "u", "s", "h", "e~", " ", "K", "o", "s", "o", "v", "e~">>>>,
       <<<<"9">>, <<"K", "a", "m", "e", "n", "i", "c", "e~">>>>,
       <<<<"1", "0">>, <<"M", "i", "t", "r", "o", "v", "i", "c", "e~">>>>,
       <<<<"1", "1">>, <<"L", "e", "p", "o", "s", "a", "v", "i", "q">>>>,
       <<<<"1", "2">>, <<"L", "i", "p", "j", "a", "n">>>>,
       <<<<"1", "3">>, <<"N", "o", "v", "o", "b", "e~", "r", "d", "e~">>>>,
       <<<<"1", "4">>, <<"O", "b", "i", "l", "i", "q">>>>,
       <<<<"1", "5">>, <<"R", "a", "h", "o", "v", "e", "c">>>>,
       <<<<"1", "6">>, <<"P", "e", "j", "e~">>>>,
       <<<<"1", "7">>, <<"P", "o", "d", "u", "j", "e", "v", "e~">>>>,
       <<<<"1", "8">>, <<"P", "r", "i", "s", "h", "t", "i", "n", "e~">>>>,
       <<<<"1", "9">>, <<"P", "r", "i", "z", "r", "e", "n">>>>,
       <<<<"2", "0">>, <<"S", "k", "e", "n", "d", "e", "r", "a", "j">>>>,
       <<<<"2", "1">>, <<"S", "h", "t", "i", "m", "e">>>>,
       <<<<"2", "2">>, <<"S", "h", "t", "e~", "r", "p", "c", "e~">>>>,
       <<<<"2", "3">>, <<"S", "u", "h", "a", "r", "e", "k", "e~">>>>,
       <<<<"2", "4">>, <<"F", "e", "r", "i", "z", "a", "j">>>>,
       <<<<"2", "5">>, <<"V", "i", "t", "i">>>>,
       <<<<"2", "6">>, <<"V", "u", "s", "h", "t", "r", "r", "i">>>>,
       <<<<"2", "7">>, <<"Z", "u", "b", "i", "n", " ", "P", "o", "t", "o", "k">>>>,
       <<<<"2", "8">>, <<"Z", "v", "e", "q", "a", "n">>>>,
       <<<<"2", "9">>, <<"M", "a", "l", "i", "s", "h", "e", "v", "e~">>>>,
       <<<<"3", "0">>, <<"J", "u", "n", "i", "k">>>>,
       <<<<"3", "1">>, <<"M", "a", "m", "u", "s", "h", "e~">>>>,
       <<<<"3", "2">>, <<"H", "a", "n", "i", " ", "i", " ", "E", "l", "e", "z", "i", "t">>>>,
       <<<<"3", "3">>, <<"G", "r", "a", "c~", "a", "n", "i", "c", "e~">>>>,
       <<<<"3", "4">>, <<"R", "a", "n", "i", "l", "l", "u", "g">>>>,
       <<<<"3", "5">>, <<"P", "a", "r", "t", "e", "s", "h">>>>,
       <<<<"3", "6">>, <<"K", "l", "l", "o", "k", "o", "t">>>>,
       <<<<"3", "7">>, <<"M", "i", "t", "r", "o", "v", "i", "c", "e~", " ", "V", "e", "r", "i", "o", "r", "e">>>>,
       <<<<"3", "8">>, <<"J", "a", "s", "h", "t", "e~", " ", "K", "o", "s", "o", "v", "e~", "s">>>>,
       <<<<"3", "9">>, <<"G", "j", "i", "t", "h", "s", "e", "j">>>>
    >>

municipality_codes == {municipality_map[i][1] : i \in 1..Len(municipality_map)}

municipality_name(code) ==
    municipality_map[CHOOSE i \in 1..Len(municipality_map) :
                        municipality_map[i][1] = code][2]

\* self.municipality_reverse_map = {v.lower(): k for k, v in ...}: the
\* comprehension inserts in order, so a later entry replaces an earlier one
\* with the same lowered name.
municipality_reverse_map ==
    LET keys == {lower(municipality_map[i][2]) : i \in 1..Len(municipality_map)}
        last(k) == CHOOSE i \in 1..Len(municipality_map) :
                      /\ lower(municipality_map[i][2]) = k
                      /\ \A j \in (i + 1)..Len(municipality_map) :
                            lower(municipality_map[j][2]) # k
    IN  [k \in keys |-> municipality_map[last(k)][1]]

\* dict.get(key): the value, or None
get_municipality_code_lowered(key) ==
    IF key \in DOMAIN municipality_reverse_map
    THEN PyStr(municipality_reverse_map[key])
    ELSE PyNone

\* a lookup that forgets to lower the name
get_municipality_code_exact(municipality) ==
    get_municipality_code_lowered(municipality)

get_municipality_code(municipality) ==
    get_municipality_code_lowered(lower(municipality))

-----------------------------------------------------------------------------
(* The catalog path *)

Max(a, b) == IF a > b THEN a ELSE b
Min(a, b) == IF a < b THEN a ELSE b

\* s[:stop] of a Python list: a negative stop counts from the end, and the
\* bound is clamped to 0..len(s)
SliceTo(s, stop) ==
    LET n == Len(s)
        k == IF stop < 0 THEN Max(stop + n, 0) ELSE Min(stop, n)
    IN  SubSeq(s, 1, k)

\* self.current_path.extend(list(args))
go_down_path(path, segs) == path \o segs

\* a go_up that computes the new length itself: path[:len(path) - levels]
go_up_path_unclamped(path, levels) == SliceTo(path, Len(path) - levels)

\* self.current_path[:-levels]
go_up_path(path, levels) == SliceTo(path, 0 - levels)

-----------------------------------------------------------------------------
(* The query builder *)

\* a clear_query that leaves the query as it is
ClearQueryValue_keep(q) == q

\* the dict clear_query assigns to self.query, whatever self.query was
ClearQueryValue(q) == [query |-> <<>>, response |-> [format |-> "json"]]

\* one element of self.query["query"]
Selection(code, values) ==
    [code |-> code, selection |-> [filter |-> "item", values |-> values]]

\* q after self.query["query"].append(sel)
AppendSelection(q, sel) == [q EXCEPT !.query = Append(@, sel)]

\* bool(code) of the value get_municipality_code returned
CodeFound(code) == Truthy(code)

\* the loop over municipalities: the codes appended and the lines printed
RECURSIVE ResolveMunicipalities(_)
ResolveMunicipalities(munis) ==
    IF munis = <<>> THEN [codes |-> <<>>, printed |-> <<>>]
    ELSE LET code == get_municipality_code(Head(munis))
             rest == ResolveMunicipalities(Tail(munis))
         IN  IF CodeFound(code)
             THEN [codes |-> <<code.v>> \o rest.codes, printed |-> rest.printed]
             ELSE [codes   |-> rest.codes,
                   printed |-> <<[warning |-> "not found", muni |-> Head(munis)]>>
                               \o rest.printed]

\* a str argument becomes a one-element list
AsList(x) == IF x.t = "str" THEN <<x.v>> ELSE x.v

\* str(n) of an int n >= 0
RECURSIVE IntToStr(_)
IntToStr(n) ==
    IF n < 10 THEN <<DigitChars[n + 1]>>
    ELSE IntToStr(n \div 10) \o <<DigitChars[(n % 10) + 1]>>

\* str(year) of an int or str year
YearStr(year) == IF year.t = "int" THEN IntToStr(year.v) ELSE year.v

\* s.zfill(width)
RECURSIVE zfill(_, _)
zfill(s, width) == IF Len(s) >= width THEN s ELSE zfill(<<"0">> \o s, width)

\* range(1, 12)
YearMonths_short == 1..11

\* the months range(1, 13) runs over
YearMonths == 1..12

\* [f"{year_str}M{str(m).zfill(2)}" for m in range(1, 13)]
YearTokens(year) ==
    [m \in YearMonths |-> YearStr(year) \o <<"M">> \o zfill(IntToStr(m), 2)]

\* int(s) of a str of decimal digits
RECURSIVE DigitsValue(_)
DigitsValue(s) ==
    IF s = <<>> THEN 0
    ELSE 10 * DigitsValue(SubSeq(s, 1, Len(s) - 1))
         + (Ord(s[Len(s)]) - Ord("0"))

\* pd.to_datetime of "YYYY-MM" or "YYYY-MM-DD": the day defaults to 1
to_datetime(s) ==
    [y |-> DigitsValue(SubSeq(s, 1, 4)),
     m |-> DigitsValue(SubSeq(s, 6, 7)),
     d |-> IF Len(s) >= 10 THEN DigitsValue(SubSeq(s, 9, 10)) ELSE 1]

IsLeap(y) == (y % 4 = 0 /\ y % 100 # 0) \/ y % 400 = 0

DaysInMonth(y, m) ==
    CASE m \in {1, 3, 5, 7, 8, 10, 12} -> 31
      [] m \in {4, 6, 9, 11}           -> 30
      [] m = 2                         -> IF IsLeap(y) THEN 29 ELSE 28

\* a <= b for two timestamps
DateLeq(a, b) ==
    \/ a.y < b.y
    \/ a.y = b.y /\ a.m < b.m
    \/ a.y = b.y /\ a.m = b.m /\ a.d <= b.d

\* the month end on or after a timestamp: where a range of frequency 'M'
\* anchors
MonthEnd(ts) == [y |-> ts.y, m |-> ts.m, d |-> DaysInMonth(ts.y, ts.m)]

NextMonthEnd(ts) ==
    IF ts.m = 12 THEN MonthEnd([y |-> ts.y + 1, m |-> 1, d |-> 1])
    ELSE MonthEnd([y |-> ts.y, m |-> ts.m + 1, d |-> 1])

\* the month ends from cur on that are <= end
RECURSIVE MonthEndsUpTo(_, _)
MonthEndsUpTo(cur, end) ==
    IF DateLeq(cur, end) THEN <<cur>> \o MonthEndsUpTo(NextMonthEnd(cur), end)
    ELSE <<>>

\* pd.date_range(start, end, freq='M'): the month ends within [start, end]
date_range(start, end) == MonthEndsUpTo(MonthEnd(start), end)

\* d.strftime('%YM%m')
strftime(d) == IntToStr(d.y) \o <<"M">> \o zfill(IntToStr(d.m), 2)

\* the tokens the date range contributes
RangeTokens(start_date, end_date) ==
    LET dates == date_range(to_datetime(start_date.v), to_datetime(end_date.v))
    IN  [i \in 1..Len(dates) |-> strftime(dates[i])]

SeqToSet(s) == {s[i] : i \in 1..Len(s)}

\* s with x put before its first element that is not smaller than x
RECURSIVE InsertStr(_, _)
InsertStr(s, x) ==
    IF s = <<>> THEN <<x>>
    ELSE IF StrLess(Head(s), x) THEN <<Head(s)>> \o InsertStr(Tail(s), x)
    ELSE <<x>> \o s

\* sorted(S) of a set of str
RECURSIVE SortedStrs(_)
SortedStrs(S) ==
    IF S = {} THEN <<>>
    ELSE LET x == CHOOSE y \in S : TRUE
         IN  InsertStr(SortedStrs(S \ {x}), x)

\* date_values, as the three extend calls build it
DateValues(months, year, start_date, end_date) ==
    (IF Truthy(months) THEN AsList(months) ELSE <<>>)
    \o (IF Truthy(year) THEN YearTokens(year) ELSE <<>>)
    \o (IF Truthy(start_date) /\ Truthy(end_date)
        THEN RangeTokens(start_date, end_date) ELSE <<>>)

\* a period selection appended without the test
HasDateValues_always(date_values) == TRUE

\* whether the period selection is appended: bool(date_values)
HasDateValues(date_values) == Len(date_values) > 0

\* the body of set_query after clear_query, run on the query q0: the
\* resulting query and the lines printed
SetQueryOn(q0, municipalities, months, year, start_date, end_date) ==
    LET resolved == IF Truthy(municipalities)
                    THEN ResolveMunicipalities(AsList(municipalities))
                    ELSE [codes |-> <<>>, printed |-> <<>>]
        q1 == IF Len(resolved.codes) > 0
              THEN AppendSelection(q0, Selection("Komuna", resolved.codes))
              ELSE q0
        date_values == DateValues(months, year, start_date, end_date)
        q2 == IF HasDateValues(date_values)
              THEN AppendSelection(q1,
                       Selection("Viti-muaji", SortedStrs(SeqToSet(date_values))))
              ELSE q1
    IN  [query |-> q2, printed |-> resolved.printed]

-----------------------------------------------------------------------------
(* The result normalizer *)

\* get_data: None when the request raised, the decoded JSON body otherwise
get_data(response) ==
    IF response.status = "error" THEN PyNone
    ELSE [t |-> "dict", v |-> response.body]

\* bool(data) of what get_data returned: None and the empty dict are falsy
DataTruthy(data) == data.t = "dict" /\ DOMAIN data.v # {}

WhitespaceChars == {" "}

\* s.strip()
RECURSIVE strip(_)
strip(s) ==
    IF s = <<>> THEN s
    ELSE IF Head(s) \in WhitespaceChars THEN strip(Tail(s))
    ELSE IF s[Len(s)] \in WhitespaceChars THEN strip(SubSeq(s, 1, Len(s) - 1))
    ELSE s

DigitSet == {DigitChars[i] : i \in 1..Len(DigitChars)}

AllDigits(s) == \A i \in 1..Len(s) : s[i] \in DigitSet

\* int(s) of a str: surrounding whitespace is dropped, one sign is allowed,
\* and at least one decimal digit must follow; anything else is a ValueError
int(s) ==
    LET body   == strip(s)
        signed == body # <<>> /\ Head(body) \in {"+", "-"}
        digits == IF signed THEN Tail(body) ELSE body
    IN  IF digits # <<>> /\ AllDigits(digits)
        THEN [ok |-> TRUE,
              v  |-> IF signed /\ Head(body) = "-"
                     THEN 0 - DigitsValue(digits) ELSE DigitsValue(digits)]
        ELSE [ok |-> FALSE]

\* a test that also takes the empty string for a missing value
IsMissing_or_empty(marriages) == marriages \in {<<":">>, <<>>}

\* the sentinel of a missing value
IsMissing(marriages) == marriages = <<":">>

\* self.municipality_map.get(code, f'Unknown ({code})')
MunicipalityLabel(code) ==
    IF code \in municipality_codes THEN municipality_name(code)
    ELSE <<"U", "n", "k", "n", "o", "w", "n", " ", "(">> \o code \o <<")">>

\* the dict appended to rows for the item at position i (0-based, the label
\* the DataFrame's index gives it); the caller has checked that the value
\* converts
RowOf(item, i) ==
    LET marriages == item.values[1]
    IN  [index             |-> i,
         Date              |-> item.key[1],
         Municipality_Code |-> item.key[2],
         Municipality      |-> MunicipalityLabel(item.key[2]),
         Marriages         |-> IF IsMissing(marriages) THEN PyNone
                               ELSE PyInt(int(marriages).v)]

\* whether the loop reaches the end: no item raises in int()
ItemConverts(item) == IsMissing(item.values[1]) \/ int(item.values[1]).ok

\* s.replace('M', '-')
str_replace_M(s) == [i \in 1..Len(s) |-> IF s[i] = "M" THEN "-" ELSE s[i]]

\* pd.to_datetime(s, format='%Y-%m'): four digits, a dash, a month 1..12 of
\* one or two digits; the result is the first of the month
ParseYearMonth(s) ==
    LET shaped == /\ Len(s) \in {6, 7}
                  /\ AllDigits(SubSeq(s, 1, 4))
                  /\ s[5] = "-"
                  /\ AllDigits(SubSeq(s, 6, Len(s)))
        month  == DigitsValue(SubSeq(s, 6, Len(s)))
    IN  IF shaped /\ month \in 1..12 /\ (Len(s) = 6 => s[6] # "0")
        THEN [ok |-> TRUE, v |-> [y |-> DigitsValue(SubSeq(s, 1, 4)),
                                  m |-> month, d |-> 1]]
        ELSE [ok |-> FALSE]

\* the order of sort_values(['Date', 'Municipality']): a strictly before b
RowLess(a, b) ==
    \/ ~DateLeq(b.Date, a.Date)
    \/ a.Date = b.Date /\ StrLess(a.Municipality, b.Municipality)

\* a stable sort by RowLess: each row goes after the rows not greater than it
RECURSIVE InsertRow(_, _)
InsertRow(sorted, r) ==
    IF sorted = <<>> THEN <<r>>
    ELSE IF RowLess(r, Head(sorted)) THEN <<r>> \o sorted
    ELSE <<Head(sorted)>> \o InsertRow(Tail(sorted), r)

\* a sort that leaves the rows in the order of the response
sort_values_unsorted(rows) == rows

RECURSIVE sort_values(_)
sort_values(rows) ==
    IF rows = <<>> THEN <<>>
    ELSE InsertRow(sort_values(SubSeq(rows, 1, Len(rows) - 1)), rows[Len(rows)])

\* the columns of pd.DataFrame(rows): the keys of the dicts, none when rows
\* is empty
DataFrameColumns(rows) ==
    IF rows = <<>> THEN {}
    ELSE {"Date", "Municipality_Code", "Municipality", "Marriages"}

\* get_data_as_df on what the transport answered: what it returns or raises
get_data_as_df_result(response) ==
    LET data == get_data(response)
    IN  IF ~DataTruthy(data) THEN Returned(PyNone)
        ELSE IF "data" \notin DOMAIN data.v THEN Raised("KeyError")
        ELSE LET items == data.v["data"]
             IN  IF \E i \in 1..Len(items) : ~ItemConverts(items[i])
                 THEN Raised("ValueError")
                 ELSE LET rows == [i \in 1..Len(items) |-> RowOf(items[i], i - 1)]
                          dates == [i \in 1..Len(rows) |->
                                      ParseYearMonth(str_replace_M(rows[i].Date))]
                      IN  IF "Date" \notin DataFrameColumns(rows)
                          THEN Raised("KeyError")
                          ELSE IF \E i \in 1..Len(rows) : ~dates[i].ok
                          THEN Raised("ValueError")
                          ELSE Returned(
                                 [t    |-> "DataFrame",
                                  rows |-> sort_values(
                                      [i \in 1..Len(rows) |->
                                          [rows[i] EXCEPT !.Date = dates[i].v]])])

-----------------------------------------------------------------------------
(* The metadata operations *)

\* a decoded JSON array and a decoded JSON object
JsonList(l) == [t |-> "list", v |-> l]
JsonDict(d) == [t |-> "dict", v |-> d]

\* self.base_url for the default lang
base_url == "http://askdata.rks-gov.net/api/v1/sq/ASKdata"

\* self.base_url + '/' + '/'.join(self.current_path), kept in its parts
get_url(path) == [base |-> base_url, path |-> path]

\* the request info makes and the one get_data makes
GetRequest(path) == [method |-> "GET", url |-> get_url(path)]
PostRequest(path, q) == [method |-> "POST", url |-> get_url(path), json |-> q]

\* an info without the try: the exception of the transport escapes
info_unguarded(answer) ==
    IF answer.status = "error" THEN Raised("RequestException")
    ELSE Returned(answer.body)

\* info: None when requests.get or raise_for_status raised a
\* RequestException, the decoded body otherwise
info_result(answer) ==
    IF answer.status = "error" THEN Returned(PyNone)
    ELSE Returned(answer.body)

\* bool(response) of what info returned
JsonTruthy(x) == x.t # "None" /\ DOMAIN x.v # {}

\* 'variables' in response: a key of the object; an array of child entries
\* never holds the str
HasVariables(x) == x.t = "dict" /\ "variables" \in DOMAIN x.v

\* the dict get_variables builds, keyed by var['text']; a later variable
\* replaces an earlier one of the same text
VariablesDict(vs) ==
    [text \in {vs[i].text : i \in 1..Len(vs)} |->
        LET i == CHOOSE k \in 1..Len(vs) :
                    /\ vs[k].text = text
                    /\ \A j \in (k + 1)..Len(vs) : vs[j].text # text
        IN  [code |-> vs[i].code, values |-> vs[i].values,
             valueTexts |-> vs[i].valueTexts]]

get_variables_result(answer) ==
    LET r == info_result(answer)
    IN  IF r.t = "raise" THEN r
        ELSE IF ~JsonTruthy(r.v) \/ ~HasVariables(r.v) THEN Returned(PyNone)
        ELSE Returned(JsonDict(VariablesDict(r.v.v["variables"])))

list_available_paths_result(answer) ==
    LET r == info_result(answer)
    IN  IF r.t = "raise" THEN r
        ELSE IF ~JsonTruthy(r.v) THEN Returned(PyNone)
        ELSE IF HasVariables(r.v) THEN Returned(PyNone)
        ELSE IF r.v.t = "list" THEN Returned(r.v)
        ELSE Returned(PyNone)

get_available_months_result(answer) ==
    LET r == get_variables_result(answer)
    IN  IF r.t = "raise" THEN r
        ELSE IF JsonTruthy(r.v) /\ "Viti-muaji" \in DOMAIN r.v.v
        THEN Returned(JsonList(r.v.v["Viti-muaji"].valueTexts))
        ELSE Returned(PyNone)

\* get_data as a call of its own
get_data_result(response) == Returned(get_data(response))

-----------------------------------------------------------------------------
(* The navigation tree *)

\* A catalog is a tree of nodes [answer, kids]: what the transport answers
\* the GET of the node's path, and the node of each child id.

\* the node at path p, the catalog failing for a path it does not hold
RECURSIVE NodeAt(_, _)
NodeAt(tree, p) ==
    IF p = <<>> THEN tree
    ELSE IF DOMAIN tree.kids # {} /\ Head(p) \in DOMAIN tree.kids
    THEN NodeAt(tree.kids[Head(p)], Tail(p))
    ELSE [answer |-> [status |-> "error", body |-> JsonDict(<<>>)], kids |-> <<>>]

\* an explore_path that returns without restoring when nothing is listed
PathWhenNoItems_kept(saved, path) == path

\* self.current_path after the `if not items:` branch of explore_path:
\* self.current_path = current_path
PathWhenNoItems(saved, path) == saved

\* explore_path(path, depth) on the client state st = [current_path,
\* fetched]: the state when it returns. fetched lists the paths whose
\* metadata was requested.
RECURSIVE explore_path(_, _, _, _, _)
RECURSIVE explore_items(_, _, _, _, _, _)
explore_path(st, path, depth, max_depth, tree) ==
    IF depth >= max_depth THEN st
    ELSE LET saved == st.current_path
             st1   == [current_path |-> path,
                       fetched |-> Append(st.fetched, path)]
             items == list_available_paths_result(
                          NodeAt(tree, st1.current_path).answer).v
         IN  IF ~JsonTruthy(items)
             THEN [st1 EXCEPT !.current_path = PathWhenNoItems(saved, path)]
             ELSE [explore_items(st1, items.v, path, depth, max_depth, tree)
                     EXCEPT !.current_path = saved]

\* the loop over the items from the first of items on
explore_items(st, items, path, depth, max_depth, tree) ==
    IF items = <<>> THEN st
    ELSE LET item == Head(items)
             st1  == IF item.type = "h"
                     THEN explore_path(st, path \o <<item.id>>, depth + 1,
                                       max_depth, tree)
                     ELSE st
         IN  explore_items(st1, Tail(items), path, depth, max_depth, tree)

\* print_navigation_tree(max_depth): explore_path([], 0)
print_navigation_tree_result(path, max_depth, tree) ==
    explore_path([current_path |-> path, fetched |-> <<>>], <<>>, 0,
                 max_depth, tree)

-----------------------------------------------------------------------------
(* Bounds and the inputs the calls are made with *)

MaxDepth == 3            \* the deepest path explored
MaxArgs == 2             \* the most segments one go_down call appends
MaxMunicipalities == 2   \* the longest municipalities list
MaxMonths == 2           \* the longest months list
MaxRows == 2             \* the most rows of a data response
MaxFlips == 1            \* the most letters of a name whose case is changed
MaxTreeDepth == 2        \* the largest max_depth and the levels of a catalog
MaxChoices == 3          \* the most inputs one navigate call reads

SeqsUpTo(S, n) == UNION {[1..k -> S] : k \in 0..n}

Segments == {"Population", "Marriages"}

Decan == <<"D", "e", "c~", "a", "n">>
PRIZREN == <<"P", "R", "I", "Z", "R", "E", "N">>
prizren == <<"p", "r", "i", "z", "r", "e", "n">>
unknownplace == <<"u", "n", "k", "n", "o", "w", "n", "p", "l", "a", "c", "e">>

InputNames == {Decan, PRIZREN, prizren, unknownplace}

Tok2022M12 == <<"2", "0", "2", "2", "M", "1", "2">>
Tok2023M01 == <<"2", "0", "2", "3", "M", "0", "1">>
Tok2023M02 == <<"2", "0", "2", "3", "M", "0", "2">>
Str2023 == <<"2", "0", "2", "3">>
Str2024 == <<"2", "0", "2", "4">>

InputMonths == {Tok2022M12, Tok2023M01}

\* "YYYY-MM" when d = 0, "YYYY-MM-DD" otherwise
DateStr(y, m, d) ==
    IntToStr(y) \o <<"-">> \o zfill(IntToStr(m), 2)
    \o (IF d = 0 THEN <<>> ELSE <<"-">> \o zfill(IntToStr(d), 2))

\* every month of 2023 and 2024, without a day, and with its fifteenth and
\* its last day
RangeDates ==
    {PyStr(DateStr(y, m, d)) :
        <<y, m, d>> \in {<<yy, mm, dd>> \in {2023, 2024} \X (1..12) \X (0..31) :
                            dd \in {0, 15, DaysInMonth(yy, mm)}}}

Args(mu, mo, y, s, e) ==
    [municipalities |-> mu, months |-> mo, year |-> y,
     start_date |-> s, end_date |-> e]

StrOrListArgs(S, n) ==
    {PyNone} \cup {PyStr(x) : x \in S} \cup {PyList(l) : l \in SeqsUpTo(S, n)}

\* the calls of the specification that builds one query: every filter form
\* together with a short range, and every range alone
BuildArgs ==
    {Args(mu, mo, y, d[1], d[2]) :
        mu \in StrOrListArgs(InputNames, MaxMunicipalities),
        mo \in StrOrListArgs(InputMonths, MaxMonths),
        y \in {PyNone, PyInt(2023), PyStr(Str2024)},
        d \in {<<PyNone, PyNone>>,
               <<PyStr(DateStr(2023, 1, 0)), PyNone>>,
               <<PyStr(DateStr(2023, 1, 0)), PyStr(DateStr(2023, 3, 0))>>}}
    \cup {Args(PyNone, PyNone, PyNone, s, e) : s \in RangeDates, e \in RangeDates}

\* the calls of the specification that makes one call after another
SeqArgs ==
    {Args(mu, mo, t[1], t[2], t[3]) :
        mu \in {PyNone}
               \cup {PyList(l) : l \in SeqsUpTo({Decan, unknownplace},
                                                MaxMunicipalities)},
        mo \in {PyNone}
               \cup {PyList(l) : l \in SeqsUpTo({Tok2023M01}, MaxMonths)},
        t \in {<<PyNone, PyNone, PyNone>>,
               <<PyInt(2023), PyNone, PyNone>>,
               <<PyNone, PyStr(DateStr(2023, 1, 0)), PyStr(DateStr(2023, 3, 0))>>}}

Item(date, code, value) == [key |-> <<date, code>>, values |-> <<value>>]

RawValues ==
    {<<":">>, <<"4", "2">>, <<"-", "7">>, <<" ", "5", " ">>, <<"+", "3">>,
     <<"0", "0", "7">>, <<>>, <<"x">>, <<"4", ".", "5">>, <<":", ":">>, <<"-">>}

ItemDates == {Tok2023M01, Tok2023M02, <<"2", "0", "2", "3", "M", "1", "3">>}
ItemCodes == {<<"0">>, <<"1", "9">>, <<"9", "9">>}

\* every raw value in one cell, and every cell with one value
Items ==
    {Item(Tok2023M01, <<"1", "9">>, v) : v \in RawValues}
    \cup {Item(d, c, <<"4", "2">>) : d \in ItemDates, c \in ItemCodes}

\* what the transport answers a data POST: a failure, or a JSON object
Responses ==
    {[status |-> "error", body |-> <<>>]}
    \cup {[status |-> "ok", body |-> b] :
            b \in {<<>>, [error |-> <<"x">>]}
                  \cup {[data |-> rows] : rows \in SeqsUpTo(Items, MaxRows)}}

\* the entries of a folder, as the catalog lists them
ChildEntry(id, type) == [id |-> id, text |-> id, type |-> type]

\* a variable of a dataset, as its metadata describes it
Variable(text, values) ==
    [code |-> text, text |-> text, values |-> values, valueTexts |-> values]

KomunaVariable == Variable("Komuna", <<<<"0">>, <<"1", "9">>>>)
PeriodVariable == Variable("Viti-muaji", <<Tok2023M01, Tok2023M02>>)

\* what the transport answers a metadata GET: a failure, a folder listing
\* (empty or not), the variables of a dataset, or another object
MetadataAnswers ==
    {[status |-> "error", body |-> JsonDict(<<>>)]}
    \cup {[status |-> "ok", body |-> b] :
            b \in {JsonList(<<>>),
                   JsonList(<<ChildEntry("Population", "h"),
                              ChildEntry("tab05.px", "l")>>),
                   JsonDict([variables |-> <<KomunaVariable, PeriodVariable>>]),
                   JsonDict([variables |-> <<KomunaVariable>>]),
                   JsonDict([error |-> <<"x">>])}}

\* a few of the answers to a data POST
DataAnswers ==
    {[status |-> "error", body |-> <<>>],
     [status |-> "ok", body |-> <<>>],
     [status |-> "ok", body |-> [data |-> <<Item(Tok2023M01, <<"0">>, <<":">>)>>]],
     [status |-> "ok",
      body   |-> [data |-> <<Item(Tok2023M02, <<"1", "9">>, <<"4", "2">>),
                             Item(Tok2023M01, <<"1", "9">>, <<"x">>)>>]]}

\* the answers of a node without children: a failure, the variables of a
\* dataset, another object, an empty listing
ChildlessAnswers ==
    {[status |-> "error", body |-> JsonDict(<<>>)],
     [status |-> "ok", body |-> JsonDict([variables |-> <<KomunaVariable>>])],
     [status |-> "ok", body |-> JsonDict([error |-> <<"x">>])],
     [status |-> "ok", body |-> JsonList(<<>>)]}

\* the listings of a folder
Listings ==
    {<<ChildEntry("Population", "h")>>,
     <<ChildEntry("Population", "h"), ChildEntry("tab05.px", "l"),
       ChildEntry("Marriages", "h")>>}

FolderIds(listing) ==
    {listing[i].id : i \in {k \in 1..Len(listing) : listing[k].type = "h"}}

\* the catalogs of at most levels levels: below the last level nothing is
\* known, and nothing is requested
RECURSIVE Catalogs(_)
Catalogs(levels) ==
    IF levels = 0
    THEN {[answer |-> [status |-> "error", body |-> JsonDict(<<>>)],
           kids |-> <<>>]}
    ELSE {[answer |-> a, kids |-> <<>>] : a \in ChildlessAnswers}
         \cup UNION {{[answer |-> [status |-> "ok", body |-> JsonList(l)],
                       kids |-> k] : k \in [FolderIds(l) -> Catalogs(levels - 1)]} :
                     l \in Listings}

\* what the transport answers the GETs of navigate
NavigateAnswers ==
    MetadataAnswers \cup {[status |-> "ok", body |-> JsonList(l)] : l \in Listings}

\* what the user types at the prompt of navigate
Choices ==
    {<<"0">>, <<"-", "1">>, <<"1">>, <<"2">>, <<"3">>, <<"4">>, <<"x">>, <<>>,
     <<"-", "2">>}

NoInput == [t |-> "none"]

-----------------------------------------------------------------------------
(* The client *)

\* the dict __init__ assigns to self.query
InitialQuery == [query |-> <<>>, response |-> [format |-> "json"]]

\* a query an earlier set_query call left behind
StaleQuery ==
    SetQueryOn(InitialQuery, PyStr(prizren), PyList(<<Tok2023M02>>),
               PyNone, PyNone, PyNone).query

Init ==
    /\ current_path = <<>>
    /\ query = InitialQuery
    /\ out = <<>>
    /\ pending = NoInput
    /\ call = NoCall
    /\ ret = Returned(PyNone)
    /\ path_before = <<>>
    /\ prev = [call |-> NoCall, path_before |-> <<>>]

go_down(segs) ==
    /\ Len(current_path) + Len(segs) <= MaxDepth
    /\ current_path' = go_down_path(current_path, segs)
    /\ call' = [op |-> "go_down", args |-> segs]
    /\ ret' = Returned(PyNone)
    /\ path_before' = current_path
    /\ prev' = [call |-> call, path_before |-> path_before]
    /\ UNCHANGED <<query, out, pending>>

go_up(levels) ==
    /\ current_path' = go_up_path(current_path, levels)
    /\ call' = [op |-> "go_up", levels |-> levels]
    /\ ret' = Returned(PyNone)
    /\ path_before' = current_path
    /\ prev' = [call |-> call, path_before |-> path_before]
    /\ UNCHANGED <<query, out, pending>>

clear_query ==
    /\ query' = ClearQueryValue(query)
    /\ call' = [op |-> "clear_query", had |-> Len(query.query)]
    /\ ret' = Returned(PyNone)
    /\ path_before' = current_path
    /\ UNCHANGED <<current_path, out, pending, prev>>

\* set_query(**a): clear_query, then the body; pending is left to the caller
set_query(a) ==
    LET r == SetQueryOn(ClearQueryValue(query), a.municipalities, a.months,
                        a.year, a.start_date, a.end_date)
    IN  /\ query' = r.query
        /\ out' = r.printed
        /\ call' = [op |-> "set_query", args |-> a, had |-> Len(query.query)]
        /\ ret' = Returned(PyNone)
        /\ path_before' = current_path
        /\ UNCHANGED <<current_path, prev>>

\* get_data_as_df(), the transport answering the POST with response
get_data_as_df(response) ==
    /\ ret' = get_data_as_df_result(response)
    /\ call' = [op |-> "get_data_as_df", response |-> response,
                requests |-> <<PostRequest(current_path, query)>>,
                query_before |-> query]
    /\ path_before' = current_path
    /\ UNCHANGED <<current_path, query, out, prev>>

\* a call that makes one metadata GET, answered with answer, and returns
\* result
MetadataCall(op, answer, result) ==
    /\ ret' = result
    /\ call' = [op |-> op, response |-> answer,
                requests |-> <<GetRequest(current_path)>>,
                query_before |-> query]
    /\ path_before' = current_path
    /\ UNCHANGED <<current_path, query, out, pending, prev>>

info(answer) == MetadataCall("info", answer, info_result(answer))

get_variables(answer) ==
    MetadataCall("get_variables", answer, get_variables_result(answer))

list_available_paths(answer) ==
    MetadataCall("list_available_paths", answer,
                 list_available_paths_result(answer))

get_available_months(answer) ==
    MetadataCall("get_available_months", answer,
                 get_available_months_result(answer))

\* get_data(), the transport answering the POST with response
get_data_call(response) ==
    /\ ret' = get_data_result(response)
    /\ call' = [op |-> "get_data", response |-> response,
                requests |-> <<PostRequest(current_path, query)>>,
                query_before |-> query]
    /\ path_before' = current_path
    /\ UNCHANGED <<current_path, query, out, pending, prev>>

-----------------------------------------------------------------------------
(* Navigation: any sequence of go_down and go_up calls *)

GoDown == \E segs \in SeqsUpTo(Segments, MaxArgs) : go_down(segs)
GoUp == \E levels \in (0 - 1)..(MaxDepth + 1) : go_up(levels)

NextNav == GoDown \/ GoUp
SpecNav == Init /\ [][NextNav]_vars

(* Query building: any sequence of set_query and clear_query calls *)

SetQuery == \E a \in SeqArgs : set_query(a) /\ UNCHANGED pending
ClearQuery == clear_query

NextQuery == SetQuery \/ ClearQuery
SpecQuery == Init /\ [][NextQuery]_vars

(* One set_query call, on a new client or on one that holds an earlier   *)
(* query, with arguments drawn in the initial state                      *)

InitBuild ==
    /\ current_path = <<>>
    /\ query \in {InitialQuery, StaleQuery}
    /\ out = <<>>
    /\ pending \in {[t |-> "args", v |-> a] : a \in BuildArgs}
    /\ call = NoCall
    /\ ret = Returned(PyNone)
    /\ path_before = <<>>
    /\ prev = [call |-> NoCall, path_before |-> <<>>]

SetQueryPending ==
    /\ pending.t = "args"
    /\ set_query(pending.v)
    /\ pending' = NoInput

NextBuild == SetQueryPending
SpecBuild == InitBuild /\ [][NextBuild]_vars

(* One get_data_as_df call, the transport's answer drawn in the initial  *)
(* state                                                                 *)

InitData ==
    /\ current_path = <<"Population", "Marriages">>
    /\ query = InitialQuery
    /\ out = <<>>
    /\ pending \in {[t |-> "response", v |-> r] : r \in Responses}
    /\ call = NoCall
    /\ ret = Returned(PyNone)
    /\ path_before = <<"Population", "Marriages">>
    /\ prev = [call |-> NoCall, path_before |-> <<>>]

GetDataAsDf ==
    /\ pending.t = "response"
    /\ get_data_as_df(pending.v)
    /\ pending' = NoInput

NextData == GetDataAsDf
SpecData == InitData /\ [][NextData]_vars


(* The calls that reach the transport, on a client at one of several     *)
(* paths and holding one of several queries                              *)

InitTransport ==
    /\ current_path \in {<<>>, <<"Population">>, <<"Population", "Marriages">>}
    /\ query \in {InitialQuery, StaleQuery}
    /\ out = <<>>
    /\ pending = NoInput
    /\ call = NoCall
    /\ ret = Returned(PyNone)
    /\ path_before = current_path
    /\ prev = [call |-> NoCall, path_before |-> <<>>]

Info == \E answer \in MetadataAnswers : info(answer)
GetVariables == \E answer \in MetadataAnswers : get_variables(answer)
ListAvailablePaths == \E answer \in MetadataAnswers : list_available_paths(answer)
GetAvailableMonths == \E answer \in MetadataAnswers : get_available_months(answer)
GetData == \E response \in DataAnswers : get_data_call(response)
GetDataAsDfAnswered ==
    \E response \in DataAnswers : get_data_as_df(response) /\ UNCHANGED pending

NextTransport ==
    \/ Info
    \/ GetVariables
    \/ ListAvailablePaths
    \/ GetAvailableMonths
    \/ GetData
    \/ GetDataAsDfAnswered
SpecTransport == InitTransport /\ [][NextTransport]_vars

(* One print_navigation_tree call, the depth and the catalog drawn in    *)
(* the initial state, on a client at one of several paths                *)

InitTree ==
    /\ current_path \in {<<>>, <<"Population">>, <<"Population", "Marriages">>}
    /\ query = InitialQuery
    /\ out = <<>>
    /\ pending \in {[t |-> "tree", max_depth |-> d, catalog |-> c] :
                        d \in 0..MaxTreeDepth, c \in Catalogs(MaxTreeDepth)}
    /\ call = NoCall
    /\ ret = Returned(PyNone)
    /\ path_before = current_path
    /\ prev = [call |-> NoCall, path_before |-> <<>>]

print_navigation_tree(max_depth, tree) ==
    LET r == print_navigation_tree_result(current_path, max_depth, tree)
    IN  /\ current_path' = r.current_path
        /\ call' = [op |-> "print_navigation_tree", max_depth |-> max_depth,
                    catalog |-> tree, fetched |-> r.fetched]
        /\ ret' = Returned(PyNone)
        /\ path_before' = current_path
        /\ UNCHANGED <<query, out, prev>>

PrintNavigationTree ==
    /\ pending.t = "tree"
    /\ print_navigation_tree(pending.max_depth, pending.catalog)
    /\ pending' = NoInput

NextTree == PrintNavigationTree
SpecTree == InitTree /\ [][NextTree]_vars

(* One navigate call on a client at root, an action for each turn of its *)
(* loop (the turn blocks on the transport and on the prompt), followed by *)
(* the documented use of what it returned                                *)

\* str.isdigit(): at least one character, all of them digits
isdigit(s) == s # <<>> /\ AllDigits(s)

InitNavigate ==
    /\ current_path = <<>>
    /\ query = InitialQuery
    /\ out = <<>>
    /\ pending = [t |-> "navigate", path_taken |-> <<>>, asked |-> 0]
    /\ call = NoCall
    /\ ret = Returned(PyNone)
    /\ path_before = <<>>
    /\ prev = [call |-> NoCall, path_before |-> <<>>]

\* navigate returns v from where the client is
navigate_return(v, variables) ==
    /\ ret' = Returned(v)
    /\ call' = [op |-> "navigate", location |-> current_path,
                variables |-> variables, asked |-> pending.asked]
    /\ pending' = [t |-> "navigated"]
    /\ UNCHANGED <<current_path, query, out, path_before, prev>>

\* the loop goes round with the client at path and path_taken as taken
navigate_continue(path, taken) ==
    /\ current_path' = path
    /\ pending' = [pending EXCEPT !.path_taken = taken, !.asked = @ + 1]
    /\ UNCHANGED <<query, out, call, ret, path_before, prev>>

\* one turn of the while loop: answer to the GET of list_available_paths,
\* variables_answer to the GET of get_variables, choice typed at the prompt
navigate(answer, variables_answer, choice) ==
    LET paths      == list_available_paths_result(answer).v
        path_taken == pending.path_taken
    IN  IF ~JsonTruthy(paths)
        THEN navigate_return(PyList(path_taken),
                             get_variables_result(variables_answer).v)
        ELSE /\ pending.asked < MaxChoices
             /\ IF ~isdigit(choice) /\ choice # <<"-", "1">>
                THEN navigate_continue(current_path, path_taken)
                ELSE LET n == int(choice).v
                     IN  IF n = 0 THEN navigate_return(PyNone, PyNone)
                         ELSE IF n = 0 - 1
                         THEN IF current_path # <<>>
                              THEN navigate_continue(
                                       go_up_path(current_path, 1),
                                       IF path_taken # <<>>
                                       THEN SubSeq(path_taken, 1,
                                                   Len(path_taken) - 1)
                                       ELSE path_taken)
                              ELSE navigate_continue(current_path, path_taken)
                         ELSE IF 1 <= n /\ n <= Len(paths.v)
                         THEN navigate_continue(
                                  go_down_path(current_path, <<paths.v[n].id>>),
                                  Append(path_taken, paths.v[n].id))
                         ELSE navigate_continue(current_path, path_taken)

Navigate ==
    /\ pending.t = "navigate"
    /\ \E answer \in NavigateAnswers, variables_answer \in MetadataAnswers,
          choice \in Choices :
          navigate(answer, variables_answer, choice)

\* path = ask.navigate(); if path: ask.go_down(*path)
UseReturnedPath ==
    /\ pending.t = "navigated"
    /\ pending' = NoInput
    /\ IF Truthy(ret.v)
       THEN /\ current_path' = go_down_path(current_path, ret.v.v)
            /\ call' = [op |-> "go_down", args |-> ret.v.v]
            /\ ret' = Returned(PyNone)
            /\ path_before' = current_path
            /\ prev' = [call |-> call, path_before |-> path_before]
            /\ UNCHANGED <<query, out>>
       ELSE UNCHANGED <<current_path, query, out, call, ret, path_before, prev>>

NextNavigate == Navigate \/ UseReturnedPath
SpecNavigate == InitNavigate /\ [][NextNavigate]_vars

(* One get_municipality_code call, the name drawn in the initial state:  *)
(* the name of a registry entry with the case of some letters changed,   *)
(* or a name no entry carries                                            *)

\* c with its case changed, c itself when it is no letter
SwapCase(c) ==
    CASE Occurs(c, UpperLetters) -> LowerLetters[IndexOf(c, UpperLetters)]
      [] Occurs(c, LowerLetters) -> UpperLetters[IndexOf(c, LowerLetters)]
      [] c = "C~" -> "c~"
      [] c = "c~" -> "C~"
      [] c = "E~" -> "e~"
      [] c = "e~" -> "E~"
      [] OTHER    -> c

IsUpperChar(c) == Occurs(c, UpperLetters) \/ c \in {"C~", "E~"}
IsLowerChar(c) == Occurs(c, LowerLetters) \/ c \in {"c~", "e~"}

\* the sets of at most MaxFlips positions of a name of n characters
FlipSets(n) ==
    {{}} \cup {{f[k] : k \in 1..MaxFlips} : f \in [1..MaxFlips -> 1..n]}

\* the name with the case changed at the positions of S, in capitals, and in
\* small letters
CaseVariants(name) ==
    {[k \in 1..Len(name) |-> IF k \in S THEN SwapCase(name[k]) ELSE name[k]] :
        S \in FlipSets(Len(name))}
    \cup {[k \in 1..Len(name) |->
             IF IsLowerChar(name[k]) THEN SwapCase(name[k]) ELSE name[k]]}
    \cup {[k \in 1..Len(name) |->
             IF IsUpperChar(name[k]) THEN SwapCase(name[k]) ELSE name[k]]}

\* names that differ from a registry name by more than letter case
ForeignNames ==
    {unknownplace,
     <<>>,
     <<"D", "e", "c", "a", "n">>,
     <<"P", "r", "i", "z", "r", "e", "n", " ">>,
     <<"M", "i", "t", "r", "o", "v", "i", "c">>,
     <<"V", "i", "t", "i", "-", "m", "u", "a", "j", "i">>}

LookupNames ==
    UNION {CaseVariants(municipality_map[i][2]) : i \in 1..Len(municipality_map)}
    \cup ForeignNames

InitLookup ==
    /\ current_path = <<>>
    /\ query = InitialQuery
    /\ out = <<>>
    /\ pending \in {[t |-> "name", v |-> n] : n \in LookupNames}
    /\ call = NoCall
    /\ ret = Returned(PyNone)
    /\ path_before = <<>>
    /\ prev = [call |-> NoCall, path_before |-> <<>>]

GetMunicipalityCode ==
    /\ pending.t = "name"
    /\ ret' = Returned(get_municipality_code(pending.v))
    /\ call' = [op |-> "get_municipality_code", municipality |-> pending.v]
    /\ pending' = NoInput
    /\ path_before' = current_path
    /\ UNCHANGED <<current_path, query, out, prev>>

NextLookup == GetMunicipalityCode
SpecLookup == InitLookup /\ [][NextLookup]_vars

-----------------------------------------------------------------------------
(* What the properties below read from the state *)

\* the positions of the selections of a dimension in the stored query
SelectionsOf(code) == {i \in 1..Len(query.query) : query.query[i].code = code}

\* the values of the first selection of a dimension, <<>> without one
ValuesOf(code) ==
    IF SelectionsOf(code) = {} THEN <<>>
    ELSE query.query[CHOOSE i \in SelectionsOf(code) :
                        \A j \in SelectionsOf(code) : i <= j].selection.values

\* a registry entry carries the name, letter case aside
Resolves(name) ==
    \E i \in 1..Len(municipality_map) : lower(municipality_map[i][2]) = lower(name)

CodeOf(name) ==
    municipality_map[CHOOSE i \in 1..Len(municipality_map) :
                        lower(municipality_map[i][2]) = lower(name)][1]

Unresolved(name) == ~Resolves(name)

\* the names a set_query call was given
NamesGiven(a) ==
    IF Truthy(a.municipalities) THEN AsList(a.municipalities) ELSE <<>>

RangeGiven(a) == Truthy(a.start_date) /\ Truthy(a.end_date)

-----------------------------------------------------------------------------
(* C1 *)

MonthNumber(ts) == ts.y * 12 + ts.m - 1
TokenOfMonth(k) == strftime([y |-> k \div 12, m |-> (k % 12) + 1, d |-> 1])

\* the months from the month of start to the month of end, none when start
\* is later than end
MonthsBetween(start, end) ==
    IF ~DateLeq(start, end) THEN {}
    ELSE {TokenOfMonth(k) : k \in MonthNumber(start)..MonthNumber(end)}

\* C1: a set_query call given only a date range stores exactly one period
\* token per calendar month from the month of start_date to the month of
\* end_date inclusive, whatever the days, and none when start_date is later
\* than end_date; the call does not raise.
C1_RangeCoversEveryMonth ==
    (call.op = "set_query" /\ RangeGiven(call.args)
        /\ ~Truthy(call.args.months) /\ ~Truthy(call.args.year))
    => LET expected == MonthsBetween(to_datetime(call.args.start_date.v),
                                     to_datetime(call.args.end_date.v))
       IN  /\ ret.t = "return"
           /\ SeqToSet(ValuesOf("Viti-muaji")) = expected
           /\ Len(ValuesOf("Viti-muaji")) = Cardinality(expected)

-----------------------------------------------------------------------------
(* C2 *)

\* C2: a go_up(levels) call with levels greater than the depth of the path
\* it starts from returns normally and leaves the path at root.
C2_GoUpBeyondDepthReachesRoot ==
    (call.op = "go_up" /\ call.levels > Len(path_before))
    => (ret.t = "return" /\ current_path = <<>>)

\* a go_up beyond the depth of a path of two or more segments that go_down
\* and go_up calls built
C2_Witness ==
    /\ call.op = "go_up"
    /\ Len(path_before) >= 2
    /\ call.levels > Len(path_before)
    /\ prev.call.op \in {"go_down", "go_up"}
    /\ current_path = <<>>

-----------------------------------------------------------------------------
(* C3 *)

\* C3: go_up(levels) with 0 <= levels <= depth removes exactly the last
\* levels segments and keeps the others in order; go_up(0) changes nothing;
\* go_down(s1..sn) then go_up(n) restores the path before the go_down.
C3_GoUpRemovesTrailingSegments ==
    /\ (call.op = "go_up" /\ 0 <= call.levels /\ call.levels <= Len(path_before))
        => current_path = SubSeq(path_before, 1, Len(path_before) - call.levels)
    /\ (call.op = "go_up" /\ call.levels = 0) => current_path = path_before
    /\ (call.op = "go_up" /\ prev.call.op = "go_down"
            /\ call.levels = Len(prev.call.args))
        => current_path = prev.path_before

-----------------------------------------------------------------------------
(* C4 *)

\* C4: after any sequence of set_query calls the stored query is the one the
\* last call builds on a newly constructed client, it holds at most one
\* selection per dimension code, and its response format is "json".
C4_QueryIsLastCallAlone ==
    call.op = "set_query"
    => /\ query = SetQueryOn(InitialQuery, call.args.municipalities,
                             call.args.months, call.args.year,
                             call.args.start_date, call.args.end_date).query
       /\ \A i, j \in 1..Len(query.query) :
            query.query[i].code = query.query[j].code => i = j
       /\ query.response = [format |-> "json"]

\* a call made on a client that held two selections stores only its own one
C4_Witness ==
    /\ call.op = "set_query"
    /\ call.had = 2
    /\ Len(query.query) = 1
    /\ SelectionsOf("Viti-muaji") # {}

-----------------------------------------------------------------------------
(* C5 *)

\* C5: a set_query call returns normally; it prints exactly one warning per
\* unresolved municipality name, in the order given; the geography
\* selection holds exactly the codes of the names that resolve, and there is
\* none when no name resolves, so that unresolved names and no time filter
\* leave a query without selections.
C5_UnresolvedNamesWarnedAndSkipped ==
    call.op = "set_query"
    => LET names == NamesGiven(call.args)
           good  == SelectSeq(names, Resolves)
           bad   == SelectSeq(names, Unresolved)
       IN  /\ ret.t = "return"
           /\ out = [i \in 1..Len(bad) |->
                        [warning |-> "not found", muni |-> bad[i]]]
           /\ ValuesOf("Komuna") = [i \in 1..Len(good) |-> CodeOf(good[i])]
           /\ Cardinality(SelectionsOf("Komuna")) = IF good = <<>> THEN 0 ELSE 1
           /\ (good = <<>> /\ ~Truthy(call.args.months) /\ ~Truthy(call.args.year)
                 /\ ~RangeGiven(call.args)) => query.query = <<>>

\* a call naming a municipality that resolves and one that does not
C5_Witness ==
    /\ call.op = "set_query"
    /\ call.args.municipalities = PyList(<<unknownplace, Decan>>)
    /\ out = <<[warning |-> "not found", muni |-> unknownplace]>>
    /\ ValuesOf("Komuna") = <<<<"0">>>>

-----------------------------------------------------------------------------
(* C6 *)

\* C6: after a set_query call the query has a "Komuna" selection exactly
\* when a municipality name resolved and a "Viti-muaji" selection exactly
\* when the period tokens are not empty, "Komuna" first; no selection has
\* an empty values list; without any filter the query has no selection.
C6_SelectionsMatchFilters ==
    call.op = "set_query"
    => LET a == call.args
           tokens == DateValues(a.months, a.year, a.start_date, a.end_date)
       IN  /\ (SelectionsOf("Komuna") # {})
                <=> (\E i \in 1..Len(NamesGiven(a)) : Resolves(NamesGiven(a)[i]))
           /\ (SelectionsOf("Viti-muaji") # {}) <=> (SeqToSet(tokens) # {})
           /\ \A i \in SelectionsOf("Komuna"), j \in SelectionsOf("Viti-muaji") :
                i < j
           /\ \A i \in 1..Len(query.query) :
                /\ query.query[i].code \in {"Komuna", "Viti-muaji"}
                /\ query.query[i].selection.values # <<>>
           /\ (a.municipalities = PyNone /\ a.months = PyNone /\ a.year = PyNone
                 /\ a.start_date = PyNone /\ a.end_date = PyNone)
                => query.query = <<>>

\* both selections, the geography one first
C6_Witness ==
    /\ call.op = "set_query"
    /\ Len(query.query) = 2
    /\ query.query[1].code = "Komuna"
    /\ query.query[2].code = "Viti-muaji"
    /\ call.args.municipalities.t = "list"
    /\ \E i \in 1..Len(call.args.municipalities.v) :
            Unresolved(call.args.municipalities.v[i])

-----------------------------------------------------------------------------
(* C7 *)

MonthSuffixes ==
    {<<"M", "0", "1">>, <<"M", "0", "2">>, <<"M", "0", "3">>, <<"M", "0", "4">>,
     <<"M", "0", "5">>, <<"M", "0", "6">>, <<"M", "0", "7">>, <<"M", "0", "8">>,
     <<"M", "0", "9">>, <<"M", "1", "0">>, <<"M", "1", "1">>, <<"M", "1", "2">>}

\* the twelve tokens of the year a call names
TwelveTokens(year) ==
    LET digits == CASE year = PyInt(2023)  -> Str2023
                    [] year.t = "str"      -> year.v
    IN  {digits \o sfx : sfx \in MonthSuffixes}

\* C7: a set_query call with months and/or a year and no date range stores
\* as the "Viti-muaji" values exactly the given months and the twelve
\* tokens <year>M01..<year>M12 of the year, each once, in ascending
\* lexicographic order.
C7_MonthsAndYearTokens ==
    (call.op = "set_query" /\ ~RangeGiven(call.args)
        /\ (Truthy(call.args.months) \/ Truthy(call.args.year)))
    => LET a == call.args
           values == ValuesOf("Viti-muaji")
       IN  /\ Cardinality(SelectionsOf("Viti-muaji")) = 1
           /\ SeqToSet(values)
                = (IF Truthy(a.months) THEN SeqToSet(AsList(a.months)) ELSE {})
                  \cup (IF Truthy(a.year) THEN TwelveTokens(a.year) ELSE {})
           /\ \A i, j \in 1..Len(values) : i < j => StrLess(values[i], values[j])

\* a year and a month of that year given twice and a month of the year
\* before: thirteen values
C7_Witness ==
    /\ call.op = "set_query"
    /\ call.args.year = PyInt(2023)
    /\ call.args.months = PyList(<<Tok2023M01, Tok2022M12>>)
    /\ ~RangeGiven(call.args)
    /\ Len(ValuesOf("Viti-muaji")) = 13
    /\ ValuesOf("Viti-muaji")[1] = Tok2022M12

-----------------------------------------------------------------------------
(* C8 *)

\* the integer each raw value of RawValues denotes
IntegerOf(raw) ==
    CASE raw = <<"4", "2">>      -> 42
      [] raw = <<"-", "7">>      -> 0 - 7
      [] raw = <<" ", "5", " ">> -> 5
      [] raw = <<"+", "3">>      -> 3
      [] raw = <<"0", "0", "7">> -> 7

\* C8: in the records get_data_as_df returns, the record of each raw row
\* has no metric value exactly when the row's raw value is ":", and
\* otherwise the integer the raw value denotes.
C8_MetricAbsentIffSentinel ==
    (call.op = "get_data_as_df" /\ ret.t = "return" /\ ret.v.t = "DataFrame")
    => LET items == call.response.body["data"]
           rows  == ret.v.rows
       IN  \A i \in 1..Len(items) :
             /\ Cardinality({k \in 1..Len(rows) : rows[k].index = i - 1}) = 1
             /\ LET rec == rows[CHOOSE k \in 1..Len(rows) : rows[k].index = i - 1]
                    raw == items[i].values[1]
                IN  /\ (rec.Marriages = PyNone) <=> (raw = <<":">>)
                    /\ raw # <<":">> => rec.Marriages = PyInt(IntegerOf(raw))

\* a response with a missing value and with "42"
C8_Witness ==
    /\ call.op = "get_data_as_df"
    /\ ret.t = "return"
    /\ ret.v.t = "DataFrame"
    /\ \E i, j \in 1..Len(ret.v.rows) :
          /\ ret.v.rows[i].Marriages = PyNone
          /\ ret.v.rows[j].Marriages = PyInt(42)

-----------------------------------------------------------------------------
(* C9 *)

Parseable == {<<"4", "2">>, <<"-", "7">>, <<" ", "5", " ">>, <<"+", "3">>,
              <<"0", "0", "7">>}

\* C9: get_data_as_df raises, and returns nothing, whenever the body of the
\* answer has no "data" key (the object without keys included) or a row
\* holds a value that is neither ":" nor an integer.
C9_MalformedResponseRaises ==
    (call.op = "get_data_as_df" /\ call.response.status = "ok"
        /\ LET body == call.response.body
           IN  \/ "data" \notin DOMAIN body
               \/ \E i \in 1..Len(body["data"]) :
                    body["data"][i].values[1] \notin Parseable \cup {<<":">>})
    => ret.t = "raise"

-----------------------------------------------------------------------------
(* C10 *)

\* C10: get_data_as_df on an answer whose "data" list is empty returns an
\* empty sequence of records and does not raise.
C10_EmptyDataGivesNoRecords ==
    (call.op = "get_data_as_df" /\ call.response.status = "ok"
        /\ "data" \in DOMAIN call.response.body
        /\ call.response.body["data"] = <<>>)
    => ret = Returned([t |-> "DataFrame", rows |-> <<>>])

-----------------------------------------------------------------------------
(* C11 *)

\* a record without the label of the DataFrame's index
Columns(row) ==
    [Date |-> row.Date, Municipality_Code |-> row.Municipality_Code,
     Municipality |-> row.Municipality, Marriages |-> row.Marriages]

ColumnsOf(rows) == [k \in 1..Len(rows) |-> Columns(rows[k])]

\* (date, name) of a is not after that of b
NotAfter(a, b) ==
    LET da == a.Date.y * 12 + a.Date.m
        db == b.Date.y * 12 + b.Date.m
    IN  da < db \/ (da = db /\ ~StrLess(b.Municipality, a.Municipality))

\* the response of the last call with its rows rearranged by p
Rearranged(p) ==
    LET items == call.response.body["data"]
    IN  [status |-> "ok",
         body   |-> [data |-> [i \in 1..Len(items) |-> items[p[i]]]]]

-----------------------------------------------------------------------------
(* C12 *)

\* a and b are the same but for the case of letters
SameButCase(a, b) ==
    /\ Len(a) = Len(b)
    /\ \A k \in 1..Len(a) : a[k] = b[k] \/ SwapCase(a[k]) = b[k]

\* C12: get_municipality_code returns the code of the registry entry whose
\* name is the given one but for letter case, and None when there is no
\* such entry.
C12_LookupIgnoresCase ==
    call.op = "get_municipality_code"
    => LET entries == {i \in 1..Len(municipality_map) :
                          SameButCase(municipality_map[i][2], call.municipality)}
       IN  /\ \A i \in entries : ret = Returned(PyStr(municipality_map[i][1]))
           /\ entries = {} => ret = Returned(PyNone)

\* the last entry of the registry, written in capitals
C12_Witness ==
    /\ call.op = "get_municipality_code"
    /\ call.municipality = <<"G", "J", "I", "T", "H", "S", "E", "J">>
    /\ ret = Returned(PyStr(<<"3", "9">>))

-----------------------------------------------------------------------------
(* C13 *)

\* s without the later occurrences of its elements
RECURSIVE FirstSeen(_)
FirstSeen(s) ==
    IF s = <<>> THEN <<>>
    ELSE LET front == FirstSeen(SubSeq(s, 1, Len(s) - 1))
         IN  IF s[Len(s)] \in SeqToSet(front) THEN front
             ELSE Append(front, s[Len(s)])

\* C13: the values of the "Komuna" selection set_query builds hold each
\* resolved municipality code once, in the order of its first appearance
\* among the names given, also when a municipality is named several times
\* or in different letter case.
C13_GeographyValuesFormASet ==
    call.op = "set_query"
    => LET good   == SelectSeq(NamesGiven(call.args), Resolves)
           codes  == [i \in 1..Len(good) |-> CodeOf(good[i])]
           values == ValuesOf("Komuna")
       IN  /\ \A i, j \in 1..Len(values) : values[i] = values[j] => i = j
           /\ values = FirstSeen(codes)

-----------------------------------------------------------------------------
(* C14 *)

TransportCalls ==
    {"info", "get_variables", "list_available_paths", "get_available_months",
     "get_data", "get_data_as_df"}

\* C14: when the transport fails during the metadata GET or the data POST of
\* info, get_variables, list_available_paths, get_available_months, get_data
\* or get_data_as_df, the call returns None, raises nothing, has made exactly
\* one request, and leaves the current path and the stored query as they
\* were.
C14_TransportFailureGivesNone ==
    (call.op \in TransportCalls /\ call.response.status = "error")
    => /\ ret = Returned(PyNone)
       /\ Len(call.requests) = 1
       /\ call.requests[1].url = get_url(path_before)
       /\ call.requests[1].method
            = (IF call.op \in {"get_data", "get_data_as_df"} THEN "POST" ELSE "GET")
       /\ current_path = path_before
       /\ query = call.query_before

\* a failed GET under get_available_months, on a client below root that
\* holds a query
C14_Witness ==
    /\ call.op = "get_available_months"
    /\ call.response.status = "error"
    /\ ret = Returned(PyNone)
    /\ current_path = <<"Population", "Marriages">>
    /\ query = StaleQuery

-----------------------------------------------------------------------------
(* C16 *)

\* C16: print_navigation_tree leaves the current path as it was before the
\* call, whatever max_depth, the catalog, and the answers to the metadata
\* requests it makes.
C16_TreeLeavesPathUnchanged ==
    call.op = "print_navigation_tree"
    => (ret.t = "return" /\ current_path = path_before)

\* a call on a client below root that went two levels down, met a failure
\* there, and returned to where it was
C16_Witness ==
    /\ call.op = "print_navigation_tree"
    /\ path_before = <<"Population", "Marriages">>
    /\ current_path = path_before
    /\ \E i \in 1..Len(call.fetched) :
          /\ Len(call.fetched[i]) = 1
          /\ NodeAt(call.catalog, call.fetched[i]).answer.status = "error"
    /\ \E i \in 1..Len(call.fetched) :
          /\ Len(call.fetched[i]) = 1
          /\ NodeAt(call.catalog, call.fetched[i]).answer.body.t = "list"

-----------------------------------------------------------------------------
(* C15 *)

\* C15: after navigate() on a client at root and then go_down(*path) with the
\* path it returned, the current path is the path of the dataset that was
\* selected, the location where navigate returned.
C15_UsageReachesSelectedDataset ==
    (call.op = "go_down" /\ prev.call.op = "navigate")
    => current_path = prev.call.location
====
